---- MODULE Spec2Model ----
(***************************************************************************)
(* Weighted consistent-hashing ring (src/consistentHashing.ts, class       *)
(* AdvancedConsistentHashing).  The ring object is modelled field by       *)
(* field.  Under Spec every method is one action.  Under SpecLoop getNodes *)
(* is a call action, one action per iteration of its while loop and a      *)
(* return action, so that the loop's termination is a property of the      *)
(* model; both use the same definitions of the loop's condition and body.  *)
(***************************************************************************)
EXTENDS Integers, Sequences, FiniteSets, TLC

\* ---------------------------------------------------------------- bounds
MaxReplicas == 1     \* numberOfReplicas is drawn from 1..MaxReplicas
MaxWeight == 2       \* weights passed to addNode: 0..MaxWeight
MaxHash == 3         \* hash values are 0..MaxHash (stands for uint32)
MaxCount == 2        \* counts passed to getNodes: -1..MaxCount
MaxRingLen == 3      \* addNode is not called once sortedKeys would exceed it

\* Spec and SpecLoop add and remove the nodes of Nodes with the weights of
\* Weights; SpecThreeNodes those of MoreNodes with the weights of LightWeights.
Nodes == {"NodeA", "NodeB"}
MoreNodes == {"NodeA", "NodeB", "NodeC"}
Weights == 0..MaxWeight
LightWeights == 0..1
Counts == -1..MaxCount
Positions == 0..MaxHash

\* see HashFns
Strides == {0, 1, 2}

\* Lookup keys: one per hash value, see HashFns.
lookupKey(j) == "key" \o ToString(j)

Keys == {lookupKey(j) : j \in Positions}

\* The value JavaScript calls undefined, and the (absent) result of a void method.
Undefined == "undefined"
Void == "void"

VARIABLES
    ring,               \* Map<number, string>: hash position -> node
    sortedKeys,         \* number[]
    numberOfReplicas,   \* number, fixed by the constructor
    weights,            \* Map<string, number>: node -> weight
    hashFunction,       \* (key: string) => number, fixed by the constructor
    call,               \* the method called last (after the constructor); with
                        \* its arguments if it is addNode; with its argument
                        \* and whether weights.get(node) found an entry if it
                        \* is removeNode
    ret,                \* what that call returned
    pc,                 \* "idle"; "loop" while getNodes is in its while loop
                        \* (SpecLoop); "hung" when a call never returns (Spec)
    key,                \* getNodes' parameter key, while the call runs
    count,              \* getNodes' parameter count, while the call runs
    index,              \* getNodes' local variable index (0-based, as in the source)
    result,             \* getNodes' local variable result
    iterations          \* number of loop iterations getNodes has run, counted
                        \* up to one more than the ring size

vars == <<ring, sortedKeys, numberOfReplicas, weights, hashFunction,
          call, ret, pc, key, count, index, result, iterations>>

\* ------------------------------------------------------- Map and Array helpers
MapSet(m, k, v) == [x \in (DOMAIN m) \cup {k} |-> IF x = k THEN v ELSE m[x]]

MapDelete(m, k) == [x \in (DOMAIN m) \ {k} |-> m[x]]

MapGet(m, k) == IF k \in DOMAIN m THEN m[k] ELSE Undefined

EmptyMap == [x \in {} |-> Undefined]

\* Filter that drops the first element equal to k only
RECURSIVE FilterFirst(_, _)
FilterFirst(seq, k) ==
    IF seq = <<>> THEN <<>>
    ELSE IF Head(seq) = k THEN Tail(seq)
    ELSE <<Head(seq)>> \o FilterFirst(Tail(seq), k)

Filter(seq, k) == SelectSeq(seq, LAMBDA e : e # k)

RECURSIVE Insert(_, _)
Insert(seq, e) ==
    IF seq = <<>> THEN <<e>>
    ELSE IF e >= seq[Len(seq)] THEN Append(seq, e)
    ELSE Append(Insert(SubSeq(seq, 1, Len(seq) - 1), e), seq[Len(seq)])

\* Sort that leaves the array as it is
SortNone(seq) == seq

RECURSIVE Sort(_)
Sort(seq) ==
    IF seq = <<>> THEN <<>>
    ELSE Insert(Sort(SubSeq(seq, 1, Len(seq) - 1)), seq[Len(seq)])

Includes(seq, e) == \E i \in 1..Len(seq) : seq[i] = e

\* FindIndex with k > hashValue for k >= hashValue
FindIndexStrict(seq, hashValue) ==
    IF \E i \in 1..Len(seq) : seq[i] > hashValue
    THEN (CHOOSE i \in 1..Len(seq) :
              /\ seq[i] > hashValue
              /\ \A j \in 1..(i - 1) : ~(seq[j] > hashValue)) - 1
    ELSE -1

\* Array.prototype.findIndex(k => k >= hashValue): 0-based, -1 when none.
FindIndex(seq, hashValue) ==
    IF \E i \in 1..Len(seq) : seq[i] >= hashValue
    THEN (CHOOSE i \in 1..Len(seq) :
              /\ seq[i] >= hashValue
              /\ \A j \in 1..(i - 1) : ~(seq[j] >= hashValue)) - 1
    ELSE -1

\* Array element read with a 0-based index.  Out of range reads undefined,
\* written -1 here: it is no key of any Map<number, string>.
At(seq, i) == IF i >= 0 /\ i < Len(seq) THEN seq[i + 1] ELSE -1

\* ------------------------------------------------------------ hash function
\* `${node}:${i}`
replicaKey(node, i) == node \o ":" \o ToString(i)

\* the replica keys addNode and removeNode make for the nodes of NS with at
\* most r replicas and weights up to w
replicaKeysOf(NS, r, w) == {replicaKey(n, i) : n \in NS, i \in 0..(r * w - 1)}

NodeOf(s) ==
    CHOOSE n \in MoreNodes : \E i \in 0..(MaxReplicas * MaxWeight - 1) : s = replicaKey(n, i)

IndexOf(s) ==
    CHOOSE i \in 0..(MaxReplicas * MaxWeight - 1) : \E n \in MoreNodes : s = replicaKey(n, i)

ValueOf(s) == CHOOSE j \in Positions : s = lookupKey(j)

\* The injected hash functions considered, for the nodes of NS with r replicas
\* and weights up to w.  A replica key `node:i` hashes to
\* base[node] + stride * i (mod MaxHash + 1), for every choice of the bases and
\* of the stride: replica keys of one node collide when the stride is 0 (or
\* divides MaxHash + 1), replica keys of two nodes collide when the bases are
\* close.  The lookup keys are named after the value they hash to, one for
\* each hash value.
HashFns(NS, r, w) ==
    { [s \in replicaKeysOf(NS, r, w) \cup Keys |->
          IF s \in Keys
          THEN ValueOf(s)
          ELSE (base[NodeOf(s)] + stride * IndexOf(s)) % (MaxHash + 1)] :
      base \in [NS -> Positions], stride \in Strides }

\* ------------------------------------------------------------- the ring object
self == [ring |-> ring, sortedKeys |-> sortedKeys, weights |-> weights]

\* addNodeLoop that does not push a position the ring already holds
RECURSIVE addNodeLoopOnce(_, _, _, _)
addNodeLoopOnce(s, node, i, n) ==
    IF i < n
    THEN LET hashValue == hashFunction[replicaKey(node, i)]
         IN addNodeLoopOnce([s EXCEPT !.ring = MapSet(s.ring, hashValue, node),
                                      !.sortedKeys = IF hashValue \in DOMAIN s.ring
                                                     THEN s.sortedKeys
                                                     ELSE Append(s.sortedKeys, hashValue)],
                            node, i + 1, n)
    ELSE s

\* addNodeLoop as a do-while loop: the body runs before i < n is tested
RECURSIVE addNodeLoopAtLeastOnce(_, _, _, _)
addNodeLoopAtLeastOnce(s, node, i, n) ==
    IF i < n \/ i = 0
    THEN LET hashValue == hashFunction[replicaKey(node, i)]
         IN addNodeLoopAtLeastOnce([s EXCEPT !.ring = MapSet(s.ring, hashValue, node),
                                             !.sortedKeys = Append(s.sortedKeys, hashValue)],
                                   node, i + 1, n)
    ELSE s

RECURSIVE addNodeLoop(_, _, _, _)
addNodeLoop(s, node, i, n) ==
    IF i < n
    THEN LET hashValue == hashFunction[replicaKey(node, i)]
         IN addNodeLoop([s EXCEPT !.ring = MapSet(s.ring, hashValue, node),
                                  !.sortedKeys = Append(s.sortedKeys, hashValue)],
                        node, i + 1, n)
    ELSE s

\* addNode without the final sort
addNodeUnsorted(s, node, weight) ==
    LET s1 == [s EXCEPT !.weights = MapSet(s.weights, node, weight)]
    IN addNodeLoop(s1, node, 0, numberOfReplicas * weight)

addNode(s, node, weight) ==
    LET s1 == [s EXCEPT !.weights = MapSet(s.weights, node, weight)]
        s2 == addNodeLoop(s1, node, 0, numberOfReplicas * weight)
    IN [s2 EXCEPT !.sortedKeys = Sort(s2.sortedKeys)]

RECURSIVE removeNodeLoop(_, _, _, _)
removeNodeLoop(s, node, i, n) ==
    IF i < n
    THEN LET hashValue == hashFunction[replicaKey(node, i)]
         IN removeNodeLoop([s EXCEPT !.ring = MapDelete(s.ring, hashValue),
                                     !.sortedKeys = Filter(s.sortedKeys, hashValue)],
                           node, i + 1, n)
    ELSE s

\* removeWeight that ignores the recorded weight
removeWeightOne(s, node) == 1

\* removeWeight that falls back to 2
removeWeightTwo(s, node) ==
    IF node \in DOMAIN s.weights /\ s.weights[node] # 0 THEN s.weights[node] ELSE 2

\* this.weights.get(node) || 1
removeWeight(s, node) ==
    IF node \in DOMAIN s.weights /\ s.weights[node] # 0 THEN s.weights[node] ELSE 1

removeNode(s, node) ==
    LET s1 == removeNodeLoop(s, node, 0, numberOfReplicas * removeWeight(s, node))
    IN [s1 EXCEPT !.weights = MapDelete(s1.weights, node)]

\* startIndex of a ring that places keys by hash value modulo ring size
startIndexModulo(s, k) == hashFunction[k] % Len(s.sortedKeys)

\* index of the position a lookup starts at: findIndex, then -1 becomes 0
startIndex(s, k) ==
    LET i == FindIndex(s.sortedKeys, hashFunction[k])
    IN IF i = -1 THEN 0 ELSE i

getNode(s, k) ==
    IF Cardinality(DOMAIN s.ring) = 0 THEN Undefined
    ELSE MapGet(s.ring, At(s.sortedKeys, startIndex(s, k)))

\* ------------------------------------------------------------------- getNodes
getNodesEarly(s, n) == Len(s.sortedKeys) = 0 \/ n <= 0

loopCond(s, res, n) == Len(res) < n /\ Len(res) < Len(s.sortedKeys)

\* loopPush without the !result.includes(node) test
loopPushAny(s, idx, res) ==
    LET node == MapGet(s.ring, At(s.sortedKeys, idx))
    IN IF node # Undefined /\ node # "" THEN Append(res, node) ELSE res

\* node && !result.includes(node)
loopPush(s, idx, res) ==
    LET node == MapGet(s.ring, At(s.sortedKeys, idx))
    IN IF node # Undefined /\ node # "" /\ ~Includes(res, node)
       THEN Append(res, node) ELSE res

loopNext(s, idx) == (idx + 1) % Len(s.sortedKeys)

\* The while loop run from (idx, res) for at most fuel iterations.
RECURSIVE getNodesRun(_, _, _, _, _)
getNodesRun(s, idx, res, n, fuel) ==
    IF ~loopCond(s, res, n) THEN [done |-> TRUE, result |-> res]
    ELSE IF fuel = 0 THEN [done |-> FALSE, result |-> res]
    ELSE getNodesRun(s, loopNext(s, idx), loopPush(s, idx, res), n, fuel - 1)

\* getNodes as a do-while loop without the early return: on a ring that holds
\* a position the body runs once before count is tested
getNodesDoWhile(s, k, n) ==
    IF Len(s.sortedKeys) = 0 THEN [done |-> TRUE, result |-> <<>>]
    ELSE LET i == startIndex(s, k)
         IN getNodesRun(s, loopNext(s, i), loopPush(s, i, <<>>), n, Len(s.sortedKeys))

\* getNodes as one step.  After ringSize iterations the loop has read every
\* element of sortedKeys, so result holds every node it can ever hold; if the
\* loop condition is still true then, it stays true for ever and the call
\* does not return: done is FALSE.  (LoopAgrees checks this against the loop
\* run one iteration at a time.)
getNodes(s, k, n) ==
    IF getNodesEarly(s, n) THEN [done |-> TRUE, result |-> <<>>]
    ELSE getNodesRun(s, startIndex(s, k), <<>>, n, Len(s.sortedKeys))

\* --------------------------------------------------------------------- actions
Idle == pc = "idle"

NoCall == "none"

Returned(c, r) ==
    /\ call' = c
    /\ ret' = r
    /\ pc' = "idle"
    /\ key' = NoCall
    /\ count' = 0
    /\ index' = 0
    /\ result' = <<>>
    /\ iterations' = 0

\* The constructor, called by a program that goes on to use the nodes of NS
\* with weights up to w.
Constructed(NS, w) ==
    /\ ring = EmptyMap
    /\ sortedKeys = <<>>
    /\ numberOfReplicas \in 1..MaxReplicas
    /\ weights = EmptyMap
    /\ hashFunction \in HashFns(NS, numberOfReplicas, w)
    /\ call = <<"constructor">>
    /\ ret = Void
    /\ pc = "idle"
    /\ key = NoCall
    /\ count = 0
    /\ index = 0
    /\ result = <<>>
    /\ iterations = 0

Init == Constructed(Nodes, MaxWeight)

AddNode(node, weight) ==
    /\ Idle
    /\ Len(sortedKeys) + numberOfReplicas * weight <= MaxRingLen
    /\ LET s == addNode(self, node, weight)
       IN /\ ring' = s.ring
          /\ sortedKeys' = s.sortedKeys
          /\ weights' = s.weights
    /\ Returned(<<"addNode", node, weight>>, Void)
    /\ UNCHANGED <<numberOfReplicas, hashFunction>>

RemoveNode(node) ==
    /\ Idle
    /\ LET s == removeNode(self, node)
       IN /\ ring' = s.ring
          /\ sortedKeys' = s.sortedKeys
          /\ weights' = s.weights
    /\ Returned(<<"removeNode", node, node \in DOMAIN weights>>, Void)
    /\ UNCHANGED <<numberOfReplicas, hashFunction>>

\* GetNode that takes the position it resolves to out of sortedKeys
GetNodeShift(k) ==
    /\ Idle
    /\ Returned(<<"getNode">>, getNode(self, k))
    /\ sortedKeys' = Filter(sortedKeys, At(sortedKeys, startIndex(self, k)))
    /\ UNCHANGED <<ring, weights, numberOfReplicas, hashFunction>>

GetNode(k) ==
    /\ Idle
    /\ Returned(<<"getNode">>, getNode(self, k))
    /\ UNCHANGED <<ring, sortedKeys, weights, numberOfReplicas, hashFunction>>

\* getNodes as one step: it returns, or it never does (pc = "hung").
GetNodes(k, n) ==
    /\ Idle
    /\ LET r == getNodes(self, k, n)
       IN IF r.done
          THEN Returned(<<"getNodes">>, r.result)
          ELSE /\ call' = <<"getNodes">>
               /\ ret' = Void
               /\ pc' = "hung"
               /\ UNCHANGED <<key, count, index, result, iterations>>
    /\ UNCHANGED <<ring, sortedKeys, weights, numberOfReplicas, hashFunction>>

Next ==
    \/ \E node \in Nodes, weight \in Weights : AddNode(node, weight)
    \/ \E node \in Nodes : RemoveNode(node)
    \/ \E k \in Keys : GetNode(k)
    \/ \E k \in Keys, n \in Counts : GetNodes(k, n)

Spec == Init /\ [][Next]_vars

\* ----------------------------------------- three nodes of weight 1 at most
\* Membership changes and single-owner lookups over a three-node cluster.
InitThreeNodes == Constructed(MoreNodes, 1)

NextThreeNodes ==
    \/ \E node \in MoreNodes, weight \in LightWeights : AddNode(node, weight)
    \/ \E node \in MoreNodes : RemoveNode(node)
    \/ \E k \in Keys : GetNode(k)

SpecThreeNodes == InitThreeNodes /\ [][NextThreeNodes]_vars

\* ------------------------------------------------- membership changes only
\* addNode and removeNode calls, no lookups: the ring states of Spec.
NextRing ==
    \/ \E node \in Nodes, weight \in Weights : AddNode(node, weight)
    \/ \E node \in Nodes : RemoveNode(node)

SpecRing == Init /\ [][NextRing]_vars

\* ------------------------------------------- getNodes, one iteration at a time
\* lines 68-81: up to the while loop
GetNodesCall(k, n) ==
    /\ Idle
    /\ IF getNodesEarly(self, n)
       THEN Returned(<<"getNodes">>, <<>>)
       ELSE /\ call' = <<"getNodes">>
            /\ ret' = Void
            /\ pc' = "loop"
            /\ key' = k
            /\ count' = n
            /\ index' = startIndex(self, k)
            /\ result' = <<>>
            /\ iterations' = 0
    /\ UNCHANGED <<ring, sortedKeys, weights, numberOfReplicas, hashFunction>>

\* lines 83-89: one iteration of the while loop
GetNodesLoop ==
    /\ pc = "loop"
    /\ loopCond(self, result, count)
    /\ result' = loopPush(self, index, result)
    /\ index' = loopNext(self, index)
    /\ iterations' = IF iterations <= Len(sortedKeys) THEN iterations + 1 ELSE iterations
    /\ UNCHANGED <<ring, sortedKeys, weights, numberOfReplicas, hashFunction,
                   call, ret, pc, key, count>>

\* line 91: the loop condition is false
GetNodesReturn ==
    /\ pc = "loop"
    /\ ~loopCond(self, result, count)
    /\ Returned(call, result)
    /\ UNCHANGED <<ring, sortedKeys, weights, numberOfReplicas, hashFunction>>

NextLoop ==
    \/ \E node \in Nodes, weight \in Weights : AddNode(node, weight)
    \/ \E node \in Nodes : RemoveNode(node)
    \/ \E k \in Keys, n \in Counts : GetNodesCall(k, n)
    \/ GetNodesLoop
    \/ GetNodesReturn

SpecLoop == Init /\ [][NextLoop]_vars

\* The one-step getNodes agrees with the loop run one iteration at a time: a
\* loop that runs for more than ringSize iterations is one getNodes reports as
\* never returning, and a loop getNodes reports as never returning never
\* reaches a false loop condition.
LoopAgrees ==
    pc = "loop" =>
        /\ iterations > Len(sortedKeys) => ~getNodes(self, key, count).done
        /\ ~getNodes(self, key, count).done => loopCond(self, result, count)

\* ... and a call that returns returns what getNodes says.
LoopReturnAgrees ==
    [][GetNodesReturn => getNodes(self, key, count) = [done |-> TRUE, result |-> ret']]_vars

\* ------------------------------------------------- vocabulary of the properties
positionsOf(s, n) == {p \in DOMAIN s.ring : s.ring[p] = n}

nodesInRing(s) == {s.ring[p] : p \in DOMAIN s.ring}

\* the replica keys the program can hash, the nodes it can name and the
\* weights it can give them (see Constructed)
replicaKeys == (DOMAIN hashFunction) \ Keys

nodeNames == {NodeOf(s) : s \in replicaKeys}

weightRange ==
    {w \in Weights : \A n \in nodeNames :
        replicaKeysOf({n}, numberOfReplicas, w) \subseteq replicaKeys}

\* no two replica keys hash to the same position
CollisionFree ==
    \A a \in replicaKeys, b \in replicaKeys : a # b => hashFunction[a] # hashFunction[b]

MinOf(S) == CHOOSE x \in S : \A y \in S : x <= y

MaxOf(S) == CHOOSE x \in S : \A y \in S : y <= x

\* the smallest stored position >= h, or the smallest stored position if none
successor(s, h) ==
    IF \E p \in DOMAIN s.ring : p >= h
    THEN MinOf({p \in DOMAIN s.ring : p >= h})
    ELSE MinOf(DOMAIN s.ring)

\* distance from position a to position b, going up and around the circle
distance(a, b) == (b - a) % (MaxHash + 1)

\* how far from the successor of h the first position bound to n lies
firstSeen(s, h, n) ==
    MinOf({distance(successor(s, h), p) : p \in positionsOf(s, n)})

\* the first c distinct nodes met walking the circle from the successor of h
firstDistinct(s, h, c) ==
    [i \in 1..c |->
        CHOOSE n \in nodesInRing(s) :
            Cardinality({m \in nodesInRing(s) : firstSeen(s, h, m) < firstSeen(s, h, n)})
                = i - 1]

\* ring, sortedKeys and weights change in AddNode and RemoveNode only; GetNode
\* and GetNodes leave them as they are.  What is said of every ring state is
\* said of the states the constructor, AddNode and RemoveNode leave.
RingState == pc = "idle" /\ call[1] \in {"constructor", "addNode", "removeNode"}

Range(seq) == {seq[i] : i \in 1..Len(seq)}

NoRepeat(seq) == \A i \in 1..Len(seq), j \in 1..Len(seq) : i # j => seq[i] # seq[j]

\* --------------------------------------------------------------------- C1
\* C1: getNodes(key, count) always terminates: its walk stops once count
\* distinct nodes are collected or once every ring position has been visited
\* once, so the loop never runs more iterations than the ring has positions.
C1_WalkStopsAfterOneRevolution ==
    pc = "loop" => iterations <= Len(sortedKeys)

\* --------------------------------------------------------------------- C2
\* C2: after removeNode(n) returns, n has no weight entry, no ring position is
\* bound to n, and neither getNode nor getNodes returns n.
C2_RemovedNodeIsGone ==
    (pc = "idle" /\ call[1] = "removeNode") =>
        LET n == call[2]
        IN /\ n \notin DOMAIN weights
           /\ positionsOf(self, n) = {}
           /\ \A k \in Keys : getNode(self, k) # n
           /\ \A k \in Keys, c \in Counts : n \notin Range(getNodes(self, k, c).result)

\* --------------------------------------------------------------------- C3
\* C3 (coverage): when the ring holds at least one position, getNode(k) is
\* never undefined and is a node that has an entry in the weight table.
C3_Coverage ==
    RingState =>
    \A k \in Keys :
        DOMAIN ring # {} =>
            /\ getNode(self, k) # Undefined
            /\ getNode(self, k) \in DOMAIN weights

\* --------------------------------------------------------------------- C4
\* C4: with a collision-free hash function every node n of the weight table
\* has exactly numberOfReplicas * weights[n] ring positions bound to it.
C4_ReplicaCount ==
    (RingState /\ CollisionFree) =>
        \A n \in DOMAIN weights :
            Cardinality(positionsOf(self, n)) = numberOfReplicas * weights[n]

\* --------------------------------------------------------------------- C5
\* C5: on a non-empty ring getNode(key) is the node bound to the smallest
\* stored position >= hashFunction(key), and the node bound to the smallest
\* stored position of all when hashFunction(key) exceeds every position.
C5_Successor ==
    RingState =>
    \A k \in Keys :
        DOMAIN ring # {} =>
            getNode(self, k) = ring[successor(self, hashFunction[k])]

\* getNode has returned the node of the smallest position for a key that
\* hashes above every position, on a ring whose largest position is bound
\* to the other node.
C5_Witness ==
    /\ pc = "idle" /\ call[1] = "getNode"
    /\ Cardinality(nodesInRing(self)) = 2
    /\ \E k \in Keys :
          /\ \A p \in DOMAIN ring : p < hashFunction[k]
          /\ ret = getNode(self, k)
          /\ ret = ring[MinOf(DOMAIN ring)]
          /\ ret # ring[MaxOf(DOMAIN ring)]

\* --------------------------------------------------------------------- C6
\* C6 (redundancy correctness): a result of getNodes(k, n) has at most n
\* entries, no node twice, only nodes that have a weight-table entry, and no
\* more entries than there are distinct nodes in the ring.
C6_Redundancy ==
    RingState =>
    \A k \in Keys, n \in 0..MaxCount :
        LET r == getNodes(self, k, n)
        IN r.done =>
              /\ Len(r.result) <= n
              /\ NoRepeat(r.result)
              /\ Range(r.result) \subseteq DOMAIN weights
              /\ Len(r.result) <= Cardinality(nodesInRing(self))

\* --------------------------------------------------------------------- C7
\* C7: when the ring holds at least count >= 1 distinct nodes, getNodes(key,
\* count) returns exactly the first count distinct nodes met walking the
\* positions in ascending circular order from the position getNode(key)
\* resolves to; its first element is getNode(key).
C7_FirstDistinctNodes ==
    RingState =>
    \A k \in Keys, n \in 1..MaxCount :
        Cardinality(nodesInRing(self)) >= n =>
            LET r == getNodes(self, k, n)
            IN /\ r.done
               /\ r.result = firstDistinct(self, hashFunction[k], n)
               /\ r.result[1] = getNode(self, k)

\* getNodes has returned two nodes from a ring of three positions, and the
\* walk that gives this result passes a second position of its first node
\* before it meets the second node.
C7_Witness ==
    /\ pc = "idle" /\ call[1] = "getNodes"
    /\ Len(ret) = 2
    /\ Cardinality(DOMAIN ring) = 3
    /\ \E k \in Keys :
          /\ getNodes(self, k, 2).result = ret
          /\ LET i == startIndex(self, k)
             IN ring[At(sortedKeys, loopNext(self, i))] = ret[1]

\* --------------------------------------------------------------------- C8
\* C8 (removal consistency): with a collision-free hash function and a ring
\* that holds neither a weight entry nor a position of X, addNode(X, w)
\* followed by removeNode(X) leaves getNode(k) and getNodes(k, c) as they were,
\* for every key k and count c.
C8_AddThenRemove ==
    (RingState /\ CollisionFree) =>
        \A X \in nodeNames, w \in weightRange :
            (X \notin DOMAIN weights /\ positionsOf(self, X) = {}) =>
                LET t == removeNode(addNode(self, X, w), X)
                IN /\ \A k \in Keys : getNode(t, k) = getNode(self, k)
                   /\ \A k \in Keys, c \in Counts :
                          getNodes(t, k, c) = getNodes(self, k, c)

\* removeNode(X) has returned for a node X that was present, on a
\* collision-free ring that still holds the other node: X is gone, and adding
\* it again would change the result of some lookup.
C8_Witness ==
    /\ pc = "idle" /\ call[1] = "removeNode" /\ call[3]
    /\ CollisionFree
    /\ call[2] \notin DOMAIN weights /\ positionsOf(self, call[2]) = {}
    /\ DOMAIN ring # {}
    /\ \E w \in weightRange, k \in Keys :
          getNode(addNode(self, call[2], w), k) # getNode(self, k)

\* --------------------------------------------------------------------- C9
\* C9 (minimal remapping): with a collision-free hash function, addNode(n, w)
\* for a node n without weight entry leaves getNode(k) unchanged or makes it
\* n, for every key k; and removeNode(n) leaves getNode(k) unchanged for
\* every key k whose node was another node than n.
C9_MinimalRemapping ==
    (RingState /\ CollisionFree) =>
        /\ \A n \in nodeNames \ DOMAIN weights, w \in weightRange, k \in Keys :
              getNode(addNode(self, n, w), k) \in {getNode(self, k), n}
        /\ \A n \in nodeNames, k \in Keys :
              getNode(self, k) \in nodeNames \ {n} =>
                  getNode(removeNode(self, n), k) = getNode(self, k)

\* addNode has returned on a collision-free ring of three nodes, some key
\* goes to the node just added and some key goes to each of the other two.
C9_Witness ==
    /\ pc = "idle" /\ call[1] = "addNode"
    /\ CollisionFree
    /\ Cardinality(nodesInRing(self)) = 3
    /\ \A n \in nodesInRing(self) : \E k \in Keys : getNode(self, k) = n
    /\ call[2] \in nodesInRing(self)

Sorted(seq) == \A i \in 1..(Len(seq) - 1) : seq[i] <= seq[i + 1]

\* C11: after every completed addNode or removeNode call the list of hash
\* positions is in ascending (non-decreasing) order, so every getNode and
\* getNodes call is served from a sorted list.
C11_SortedKeysAscending == Sorted(sortedKeys)

\* addNode(n, w) has returned with w >= 1 on a ring that held a position of
\* another node above the position of the replica key `n:0`: the position
\* pushed last had to be moved in front of it.
C11_Witness ==
    /\ pc = "idle" /\ call[1] = "addNode" /\ call[3] >= 1
    /\ LET h == hashFunction[replicaKey(call[2], 0)]
       IN /\ ring[h] = call[2]
          /\ \E p \in DOMAIN ring : ring[p] # call[2] /\ h < p

\* -------------------------------------------------------------------- C12
\* the positions removeNode(n) deletes when n has no weight entry
fallbackPositions(n) ==
    {hashFunction[replicaKey(n, i)] : i \in 0..(numberOfReplicas - 1)}

\* C12: removeNode(n) for a node n that has no weight entry (a node never
\* added is one), with a hash function whose replica keys for n hit no
\* stored position, leaves the position bindings, the sorted position list
\* and the weight table unchanged.
C12_RemoveAbsentIsNoOp ==
    [][\A n \in Nodes :
          (/\ RemoveNode(n)
           /\ n \notin DOMAIN weights
           /\ fallbackPositions(n) \cap DOMAIN ring = {})
          => UNCHANGED <<ring, sortedKeys, weights>>]_vars

\* removeNode(n) has returned for a node n that had no weight entry, on a
\* ring that holds positions, and no replica key of any node hashes to a
\* position removeNode(n) deletes.
C12_Witness ==
    /\ pc = "idle" /\ call[1] = "removeNode" /\ ~call[3]
    /\ DOMAIN ring # {}
    /\ \A a \in replicaKeys :
          hashFunction[a] \in fallbackPositions(call[2]) =>
              NodeOf(a) = call[2] /\ IndexOf(a) < numberOfReplicas

\* -------------------------------------------------------------------- C13
\* C13: getNode and getNodes are pure reads: they leave the position
\* bindings, the sorted position list, the weight table, the replica count
\* and the hash function unchanged, so what a call returned is what the same
\* call returns in the state it leaves.
C13_LookupsArePureReads ==
    [][call'[1] \in {"getNode", "getNodes"} =>
          /\ UNCHANGED <<ring, sortedKeys, weights, numberOfReplicas, hashFunction>>
          /\ (call'[1] = "getNode") =>
                 \E k \in Keys : getNode(self', k) = ret'
          /\ (call'[1] = "getNodes" /\ pc' = "idle") =>
                 \E k \in Keys, n \in Counts :
                     getNodes(self', k, n) = [done |-> TRUE, result |-> ret']
      ]_vars

\* getNode has returned a node of weight >= 1 from a ring of two positions
\* at least.
C13_Witness ==
    /\ pc = "idle" /\ call[1] = "getNode"
    /\ ret \in DOMAIN weights
    /\ weights[ret] >= 1
    /\ Cardinality(DOMAIN ring) >= 2

\* -------------------------------------------------------------------- C14
\* C14: addNode(n, w) with w <= 0 records n with weight w in the weight table
\* and inserts no ring position: the position bindings and the sorted
\* position list are as before, and so are the results of getNode and
\* getNodes for every key and count.
C14_NonPositiveWeightAddsNoPosition ==
    RingState =>
    \A n \in nodeNames, w \in {-1, 0} :
        LET t == addNode(self, n, w)
        IN /\ n \in DOMAIN t.weights /\ t.weights[n] = w
           /\ \A m \in DOMAIN weights \ {n} : m \in DOMAIN t.weights /\ t.weights[m] = weights[m]
           /\ t.ring = ring
           /\ t.sortedKeys = sortedKeys
           /\ \A k \in Keys : getNode(t, k) = getNode(self, k)
           /\ \A k \in Keys, c \in Counts : getNodes(t, k, c) = getNodes(self, k, c)

\* addNode(n, 0) has returned for a node n that was not in the ring, on a
\* ring that holds a position of another node: n has weight 0 and no position.
C14_Witness ==
    /\ pc = "idle" /\ call[1] = "addNode" /\ call[3] = 0
    /\ call[2] \in DOMAIN weights /\ weights[call[2]] = 0
    /\ positionsOf(self, call[2]) = {}
    /\ DOMAIN ring # {}

\* -------------------------------------------------------------------- C15
\* C15: when the ring holds no position getNode returns undefined and
\* getNodes returns the empty array; getNodes also returns the empty array
\* for every count <= 0 on every ring.  (A call that raised an error would
\* not return; none of the two methods has a throw.)
C15_EmptyRingAndNonPositiveCount ==
    RingState =>
        /\ DOMAIN ring = {} =>
              /\ \A k \in Keys : getNode(self, k) = Undefined
              /\ \A k \in Keys, c \in Counts :
                    getNodes(self, k, c) = [done |-> TRUE, result |-> <<>>]
        /\ \A k \in Keys, c \in Counts :
              c <= 0 => getNodes(self, k, c) = [done |-> TRUE, result |-> <<>>]

\* getNode has returned undefined from a ring that holds no position though
\* the weight table holds a node.
C15_Witness ==
    /\ pc = "idle" /\ call[1] = "getNode"
    /\ ret = Undefined
    /\ DOMAIN ring = {}
    /\ DOMAIN weights # {}

\* -------------------------------------------------------------------- C16
\* C16: after every completed operation, for any hash function and any
\* sequence of operations, the values of the sorted position list are the
\* keys of the position-to-node map; so the map lookup of a listed position
\* is never undefined, and ring.size === 0 (getNode's test) agrees with
\* sortedKeys.length === 0 (getNodes' test).
C16_ListAndMapAgree ==
    /\ Range(sortedKeys) = DOMAIN ring
    /\ \A i \in 1..Len(sortedKeys) : MapGet(ring, sortedKeys[i]) # Undefined
    /\ (Cardinality(DOMAIN ring) = 0) <=> (Len(sortedKeys) = 0)

\* removeNode has returned for a node that was present and whose replica key
\* collided with that of another node: the other node has a weight >= 1 and
\* no position left, in the map or in the list.
C16_Witness ==
    /\ pc = "idle" /\ call[1] = "removeNode" /\ call[3]
    /\ \E m \in DOMAIN weights : weights[m] >= 1 /\ positionsOf(self, m) = {}

\* -------------------------------------------------------------------- C17
\* C17: after any sequence of addNode/removeNode calls the sorted position
\* list holds each hash position at most once, so its length (the ringSize
\* of getNodes) is the number of bindings of the position-to-node map.
C17_NoDuplicatePositions ==
    /\ NoRepeat(sortedKeys)
    /\ Len(sortedKeys) = Cardinality(DOMAIN ring)

\* -------------------------------------------------------------------- C18
\* C18: removeNode(n) only affects n: for any hash function every position
\* bound to a node other than n before the call is bound to that node after
\* it, and the weight entries of all other nodes are unchanged.
C18_RemoveOnlyAffectsNode ==
    RingState =>
    \A n \in nodeNames :
        LET t == removeNode(self, n)
        IN /\ \A p \in DOMAIN ring :
                 ring[p] # n => p \in DOMAIN t.ring /\ t.ring[p] = ring[p]
           /\ \A m \in DOMAIN weights \ {n} :
                 m \in DOMAIN t.weights /\ t.weights[m] = weights[m]

\* removeNode(n) with a collision-free hash function does leave the positions
\* and the weights of the other nodes alone.
RemoveOnlyAffectsNodeCollisionFree ==
    CollisionFree => C18_RemoveOnlyAffectsNode

\* C17 for collision-free hash functions only: it does not hold either, a
\* present node added again puts its positions in the list a second time.
NoDuplicatePositionsCollisionFree ==
    CollisionFree => C17_NoDuplicatePositions

\* -------------------------------------------------------------------- C19
\* C19: addNode calls for distinct nodes commute: with a collision-free hash
\* function, adding (n, w) then (m, v) and adding (m, v) then (n, w) to the
\* same ring give the same position bindings, sorted position list and
\* weight table, and therefore the same getNode and getNodes results.
C19_AddNodeCommutes ==
    (RingState /\ CollisionFree) =>
        \A n \in nodeNames, m \in nodeNames, w \in weightRange, v \in weightRange :
            n # m => addNode(addNode(self, n, w), m, v) = addNode(addNode(self, m, v), n, w)

\* the ring object right after construction
emptyRing == [ring |-> EmptyMap, sortedKeys |-> <<>>, weights |-> EmptyMap]

\* addNode has returned on a collision-free ring that is the ring built from
\* scratch by adding its two nodes, each with a position, in one order and in
\* the other.
C19_Witness ==
    /\ pc = "idle" /\ call[1] = "addNode"
    /\ CollisionFree
    /\ Cardinality(DOMAIN weights) = 2
    /\ \A n \in DOMAIN weights : weights[n] >= 1
    /\ \E n \in DOMAIN weights, m \in DOMAIN weights :
          /\ n # m
          /\ self = addNode(addNode(emptyRing, n, weights[n]), m, weights[m])
          /\ self = addNode(addNode(emptyRing, m, weights[m]), n, weights[n])
          /\ hashFunction[replicaKey(n, 0)] < hashFunction[replicaKey(m, 0)]

TypeOK == pc \in {"idle", "loop", "hung"}
====
